---- MODULE Spec2Model ----
(***************************************************************************)
(* Model of app.py, the "Tax Credit Eligibility Finder" dashboard: one     *)
(* script that is re-executed top to bottom on every user interaction.     *)
(* It loads the applicant table through a time-limited shared cache,       *)
(* renders the sidebar filters, filters the table, and renders three       *)
(* metrics, a grouped summary chart and the table, all inside one          *)
(* try/except that turns any exception into one error message.             *)
(***************************************************************************)
EXTENDS Integers, Sequences, FiniteSets, TLC

VARIABLES
    store,          \* the database: [status, rows, cols]
    cache_data,     \* st.cache_data entry of load_data: [present, rows, cols]
    age,            \* time units since cache_data was stored
    state_filter,   \* widget values of the observed session
    city_filter,
    zip_filter,
    naics_filter,
    ez_only,
    group_option,
    df,             \* what load_data returned to the last run: [ok, rows, cols]
    filtered_df,    \* [ok, rows]: the last run's filtered_df, if it was computed
    metrics,        \* [count, eligibleCount, distinctNaicsCount]
    summary,        \* [ok, counts]: group key -> Count
    rendered,       \* the elements the page shows after the last run
    errors,         \* the number of st.error messages the page shows
    calls,          \* the load_data calls made by the last step, in order
    caller          \* whose step made them: "this" session, an "other", "none"

vars == <<store, cache_data, age, state_filter, city_filter, zip_filter,
          naics_filter, ez_only, group_option, df, filtered_df, metrics,
          summary, rendered, errors, calls, caller>>

widgets == <<state_filter, city_filter, zip_filter, naics_filter, ez_only,
             group_option>>

page == <<df, filtered_df, metrics, summary, rendered, errors>>

----------------------------------------------------------------------------
(* Bounds and program constants *)

\* rows of a table drawn for the filtering specification
MaxRows == 2

\* @st.cache_data(ttl=600)
TTL == 600

\* ages are tracked up to one unit past the ttl
MaxAge == TTL + 1

----------------------------------------------------------------------------
(* Data: applicant records.  A text is a sequence of one-character strings. *)

NULL == "<null>"

NULLTEXT == <<NULL>>

Columns == {"state", "city", "zipcode", "naics_code", "zone_result"}

rA == [state |-> "CA", city |-> <<"S", "p">>, zipcode |-> <<"9", "A">>,
       naics_code |-> "541", zone_result |-> "N/A"]

rB == [state |-> "CA", city |-> <<"s", "a">>, zipcode |-> <<"9", "a">>,
       naics_code |-> "541", zone_result |-> "EZ1"]

rC == [state |-> "NY", city |-> NULLTEXT, zipcode |-> NULLTEXT,
       naics_code |-> "722", zone_result |-> "N/A"]

rD == [state |-> NULL, city |-> <<"a", "S">>, zipcode |-> <<"1">>,
       naics_code |-> NULL, zone_result |-> NULL]

\* the records the drawn tables are made of
Records == {rA, rB, rC, rD}

\* the three-record scenario: CA/541/N/A, CA/541/EZ1, NY/722/N/A
ScenarioData == <<rA, rB, rC>>

SeqsUpTo(S, n) == UNION {[1..k -> S] : k \in 0..n}

Datasets == SeqsUpTo(Records, MaxRows) \cup {ScenarioData}

\* what a user types into a text input
Texts == {<<>>, <<"a">>, <<".", "a">>, <<"(">>}

GroupOptions == {"State", "NAICS Code", "Both"}

Range(s) == {s[i] : i \in 1..Len(s)}

----------------------------------------------------------------------------
(* Series.str.contains(pat, case=..., na=False): pat is a regular           *)
(* expression (regex=True is the default).  Over the characters used here   *)
(* a pattern is a sequence of literals and "." (any character); a pattern   *)
(* holding "(" has an unterminated group and does not compile.              *)

Lower(c) == CASE c = "S" -> "s" [] c = "A" -> "a" [] OTHER -> c

Compiles(pat) == \A i \in 1..Len(pat) : pat[i] # "("

CharMatches(p, c, case) ==
    \/ p = "."
    \/ IF case THEN p = c ELSE Lower(p) = Lower(c)

Search(pat, s, case) ==
    \E k \in 0..(Len(s) - Len(pat)) :
        \A i \in 1..Len(pat) : CharMatches(pat[i], s[k + i], case)

str_contains(v, pat, case) == v # NULLTEXT /\ Search(pat, v, case)

----------------------------------------------------------------------------
(* The filtering logic, one boolean mask per active filter. *)

\* as MaskState, without the "if state_filter:" guard
MaskStateUnguarded(d, c) ==
    SelectSeq(d, LAMBDA r : r.state \in c.state_filter)

MaskState(d, c) ==
    IF c.state_filter # {}
    THEN SelectSeq(d, LAMBDA r : r.state \in c.state_filter)
    ELSE d

MaskCity(d, c) ==
    IF c.city_filter # <<>>
    THEN SelectSeq(d, LAMBDA r : str_contains(r.city, c.city_filter, FALSE))
    ELSE d

MaskZip(d, c) ==
    IF c.zip_filter # <<>>
    THEN SelectSeq(d, LAMBDA r : str_contains(r.zipcode, c.zip_filter, TRUE))
    ELSE d

MaskNaics(d, c) ==
    IF c.naics_filter # {}
    THEN SelectSeq(d, LAMBDA r : r.naics_code \in c.naics_filter)
    ELSE d

\* as MaskZone, with the selection sliced one row too far
MaskZoneDropsFirst(d, c) ==
    IF c.ez_only
    THEN LET m == SelectSeq(d, LAMBDA r : r.zone_result # "N/A") IN
         IF m = <<>> THEN m ELSE Tail(m)
    ELSE d

MaskZone(d, c) ==
    IF c.ez_only
    THEN SelectSeq(d, LAMBDA r : r.zone_result # "N/A")
    ELSE d

ApplyMask(f, d, c) ==
    CASE f = "state" -> MaskState(d, c)
      [] f = "city" -> MaskCity(d, c)
      [] f = "zipcode" -> MaskZip(d, c)
      [] f = "naics_code" -> MaskNaics(d, c)
      [] f = "zone_result" -> MaskZone(d, c)

RECURSIVE ApplyMasks(_, _, _)
ApplyMasks(order, d, c) ==
    IF order = <<>> THEN d
    ELSE ApplyMasks(Tail(order), ApplyMask(Head(order), d, c), c)

\* the order the script applies them in
CodeOrder == <<"state", "city", "zipcode", "naics_code", "zone_result">>

\* as Filtering, with the zone mask indexing df instead of filtered_df
FilteringZoneOnOriginal(d, c) ==
    IF c.ez_only THEN MaskZone(d, c) ELSE ApplyMasks(CodeOrder, d, c)

Filtering(d, c) == ApplyMasks(CodeOrder, d, c)

\* the filtering raises: a text filter whose pattern does not compile, or a
\* filter on a column the table lacks
FilteringRaises(cols, c) ==
    \/ c.city_filter # <<>> /\ ("city" \notin cols \/ ~Compiles(c.city_filter))
    \/ c.zip_filter # <<>> /\ ("zipcode" \notin cols \/ ~Compiles(c.zip_filter))
    \/ c.ez_only /\ "zone_result" \notin cols

----------------------------------------------------------------------------
(* Metrics and the grouped summary *)

RECURSIVE SumOver(_, _)
SumOver(f, S) ==
    IF S = {} THEN 0
    ELSE LET x == CHOOSE y \in S : TRUE IN f[x] + SumOver(f, S \ {x})

\* Series.unique(): the distinct values, null included
Unique(d, col) == {d[i][col] : i \in 1..Len(d)}

\* Series.nunique(): dropna=True is the default
nunique(d, col) == Cardinality(Unique(d, col) \ {NULL})

\* as Metrics, with the eligibility comparison inverted
MetricsInverted(F) ==
    [count |-> Len(F),
     eligibleCount |-> Len(SelectSeq(F, LAMBDA r : r.zone_result = "N/A")),
     distinctNaicsCount |-> nunique(F, "naics_code")]

Metrics(F) ==
    [count |-> Len(F),
     eligibleCount |-> Len(SelectSeq(F, LAMBDA r : r.zone_result # "N/A")),
     distinctNaicsCount |-> nunique(F, "naics_code")]

\* the key of a row under a group option
KeyOf(r, g) ==
    CASE g = "State" -> <<r.state>>
      [] g = "NAICS Code" -> <<r.naics_code>>
      [] OTHER -> <<r.state, r.naics_code>>

\* DataFrame.groupby(keys).size(): dropna=True is the default, so a row with
\* a null in a key column belongs to no group
GroupKeys(F, g) ==
    {k \in {KeyOf(F[i], g) : i \in 1..Len(F)} : NULL \notin Range(k)}

Summarize(F, g) ==
    [k \in GroupKeys(F, g) |->
        Len(SelectSeq(F, LAMBDA r : KeyOf(r, g) = k))]

SummaryTotal(s) == SumOver(s, DOMAIN s)

----------------------------------------------------------------------------
(* The cached loader *)

EmptyCache == [present |-> FALSE, rows |-> <<>>, cols |-> {}]

\* as CacheHit, with an entry still served at the age of the ttl
CacheHitInclusive(c, a) == c.present /\ a <= TTL

\* st.cache_data serves an entry until its ttl has elapsed: an entry stored
\* at time t is served while now < t + ttl
CacheHit(c, a) == c.present /\ a < TTL

\* pd.read_sql(query, engine): the whole table, or an exception when the
\* store cannot be reached or the secrets are invalid
read_sql(s) ==
    IF s.status = "up"
    THEN [ok |-> TRUE, rows |-> s.rows, cols |-> s.cols]
    ELSE [ok |-> FALSE, rows |-> <<>>, cols |-> {}]

\* as load_data, with the failed query stored like a result
load_dataCachesFailure(c, a, s) ==
    IF c.present /\ a < TTL
    THEN [df |-> [ok |-> TRUE, rows |-> c.rows, cols |-> c.cols],
          cache |-> c, age |-> a,
          call |-> [entry |-> c.present, entryAge |-> a, queried |-> FALSE,
                    ok |-> TRUE]]
    ELSE LET q == IF s.status = "up"
                  THEN [ok |-> TRUE, rows |-> s.rows, cols |-> s.cols]
                  ELSE [ok |-> FALSE, rows |-> <<>>, cols |-> {}] IN
         [df |-> q,
          cache |-> [present |-> TRUE, rows |-> q.rows, cols |-> q.cols],
          age |-> 0,
          call |-> [entry |-> c.present, entryAge |-> a, queried |-> TRUE,
                    ok |-> q.ok]]

\* load_data() under @st.cache_data(ttl=600): a hit returns the entry; a miss
\* runs the query and stores its result; an exception is not stored.
\* Returns the value, the cache afterwards and a record of the call.
load_data(c, a, s) ==
    IF CacheHit(c, a)
    THEN [df |-> [ok |-> TRUE, rows |-> c.rows, cols |-> c.cols],
          cache |-> c, age |-> a,
          call |-> [entry |-> c.present, entryAge |-> a, queried |-> FALSE,
                    ok |-> TRUE]]
    ELSE LET q == read_sql(s) IN
         [df |-> q,
          cache |-> IF q.ok THEN [present |-> TRUE, rows |-> q.rows,
                                  cols |-> q.cols]
                    ELSE EmptyCache,
          age |-> 0,
          call |-> [entry |-> c.present, entryAge |-> a, queried |-> TRUE,
                    ok |-> q.ok]]

\* st.cache_data.clear()
cache_clear(c) == EmptyCache

----------------------------------------------------------------------------
(* One execution of the script body, lines 38-101 *)

\* the script gets past the State multiselect, the NAICS multiselect (and so
\* to the Reload button), the filtering, and the second metric
PastState(d) == d.ok /\ "state" \in d.cols

PastNaics(d) == PastState(d) /\ "naics_code" \in d.cols

PastFiltering(d, c) == PastNaics(d) /\ ~FilteringRaises(d.cols, c)

PastMetrics(d, c) == PastFiltering(d, c) /\ "zone_result" \in d.cols

\* an exception reached the except clause
Raised(d, c) == ~PastMetrics(d, c)

FilterControls ==
    {"state_filter", "city_filter", "zip_filter", "naics_filter", "ez_only",
     "reload_button"}

MetricElements == {"metric_count", "metric_ez", "metric_naics"}

\* as Rendered, with the sidebar text inputs and checkbox created before
\* the try block
RenderedInputsFirst(d, c) ==
    {"title", "city_filter", "zip_filter", "ez_only"}
    \cup (IF d.ok THEN {"filters_header"} ELSE {})
    \cup (IF PastState(d) THEN {"state_filter"} ELSE {})
    \cup (IF PastNaics(d)
          THEN {"naics_filter", "controls_header", "reload_button"}
          ELSE {})
    \cup (IF PastFiltering(d, c) THEN {"metric_count"} ELSE {})
    \cup (IF PastMetrics(d, c)
          THEN {"metric_ez", "metric_naics", "summary_header", "group_option",
                "chart", "details_header", "table"}
          ELSE {})
    \cup (IF Raised(d, c) THEN {"error"} ELSE {})

\* the elements the run has put on the page when it ends
Rendered(d, c) ==
    {"title"}
    \cup (IF d.ok THEN {"filters_header"} ELSE {})
    \cup (IF PastState(d)
          THEN {"state_filter", "city_filter", "zip_filter"} ELSE {})
    \cup (IF PastNaics(d)
          THEN {"naics_filter", "ez_only", "controls_header", "reload_button"}
          ELSE {})
    \cup (IF PastFiltering(d, c) THEN {"metric_count"} ELSE {})
    \cup (IF PastMetrics(d, c)
          THEN {"metric_ez", "metric_naics", "summary_header", "group_option",
                "chart", "details_header", "table"}
          ELSE {})
    \cup (IF Raised(d, c) THEN {"error"} ELSE {})

\* st.error is called once, in the except clause
ErrorCount(d, c) == IF Raised(d, c) THEN 1 ELSE 0

NoRows == [ok |-> FALSE, rows |-> <<>>]

NoMetrics == [count |-> 0, eligibleCount |-> 0, distinctNaicsCount |-> 0]

NoSummary == [ok |-> FALSE, counts |-> <<>>]

Script(d, c) ==
    LET F == Filtering(d.rows, c) IN
    [df |-> d,
     filtered_df |-> IF PastFiltering(d, c) THEN [ok |-> TRUE, rows |-> F]
                     ELSE NoRows,
     metrics |-> IF PastMetrics(d, c) THEN Metrics(F) ELSE NoMetrics,
     summary |-> IF PastMetrics(d, c)
                 THEN [ok |-> TRUE, counts |-> Summarize(F, c.group_option)]
                 ELSE NoSummary,
     rendered |-> Rendered(d, c),
     errors |-> ErrorCount(d, c)]

Show(out) ==
    /\ df' = out.df
    /\ filtered_df' = out.filtered_df
    /\ metrics' = out.metrics
    /\ summary' = out.summary
    /\ rendered' = out.rendered
    /\ errors' = out.errors

----------------------------------------------------------------------------
(* The state machine *)

\* the widget values the script reads
Crit ==
    [state_filter |-> state_filter, city_filter |-> city_filter,
     zip_filter |-> zip_filter, naics_filter |-> naics_filter,
     ez_only |-> ez_only, group_option |-> group_option]

Unset ==
    [state_filter |-> {}, city_filter |-> <<>>, zip_filter |-> <<>>,
     naics_filter |-> {}, ez_only |-> FALSE, group_option |-> "State"]

\* the table the interactive specification serves, and the columns a schema
\* change may drop from it
LiveRows == <<rA, rD>>

Schemas == {Columns, Columns \ {"naics_code"}, Columns \ {"zone_result"}}

\* what a user types in the interactive specification
TypedTexts == {<<>>, <<"(">>}

\* time passes in steps of these sizes
Delays == {TTL - 1, TTL}

BlankPage ==
    /\ df = [ok |-> FALSE, rows |-> <<>>, cols |-> {}]
    /\ filtered_df = NoRows
    /\ metrics = NoMetrics
    /\ summary = NoSummary
    /\ rendered = {}
    /\ errors = 0

\* the server has started and no session has run the script yet
Init ==
    /\ store = [status |-> "up", rows |-> LiveRows, cols |-> Columns]
    /\ cache_data = EmptyCache
    /\ age = 0
    /\ state_filter = {}
    /\ city_filter = <<>>
    /\ zip_filter = <<>>
    /\ naics_filter = {}
    /\ ez_only = FALSE
    /\ group_option = "State"
    /\ BlankPage
    /\ calls = <<>>
    /\ caller = "none"

\* a widget the run did not create loses its value: the session keeps the
\* values of the widgets of the last run only
Kept(c, shown) ==
    [state_filter |-> IF "state_filter" \in shown THEN c.state_filter ELSE {},
     city_filter |-> IF "city_filter" \in shown THEN c.city_filter ELSE <<>>,
     zip_filter |-> IF "zip_filter" \in shown THEN c.zip_filter ELSE <<>>,
     naics_filter |-> IF "naics_filter" \in shown THEN c.naics_filter ELSE {},
     ez_only |-> IF "ez_only" \in shown THEN c.ez_only ELSE FALSE,
     group_option |-> IF "group_option" \in shown THEN c.group_option
                      ELSE "State"]

SetWidgets(c) ==
    /\ state_filter' = c.state_filter
    /\ city_filter' = c.city_filter
    /\ zip_filter' = c.zip_filter
    /\ naics_filter' = c.naics_filter
    /\ ez_only' = c.ez_only
    /\ group_option' = c.group_option

\* one run of the script with widget values c
RunWith(c) ==
    LET L == load_data(cache_data, age, store)
        out == Script(L.df, c) IN
    /\ cache_data' = L.cache
    /\ age' = L.age
    /\ calls' = <<L.call>>
    /\ caller' = "this"
    /\ Show(out)
    /\ SetWidgets(Kept(c, out.rendered))
    /\ UNCHANGED store

\* the page is opened or rerun with the widgets as they are
Rerun == RunWith(Crit)

SetStateFilter(sel) ==
    /\ "state_filter" \in rendered
    /\ RunWith([Crit EXCEPT !.state_filter = sel])

SetCityFilter(t) ==
    /\ "city_filter" \in rendered
    /\ RunWith([Crit EXCEPT !.city_filter = t])

SetZipFilter(t) ==
    /\ "zip_filter" \in rendered
    /\ RunWith([Crit EXCEPT !.zip_filter = t])

SetNaicsFilter(sel) ==
    /\ "naics_filter" \in rendered
    /\ RunWith([Crit EXCEPT !.naics_filter = sel])

ToggleEzOnly ==
    /\ "ez_only" \in rendered
    /\ RunWith([Crit EXCEPT !.ez_only = ~ez_only])

SetGroupOption(g) ==
    /\ "group_option" \in rendered
    /\ RunWith([Crit EXCEPT !.group_option = g])

\* load_data, cache clear and rerun of a click on Reload Data: the cache and
\* the calls of the run that sees the click and of the rerun that follows.
\* The button is reached only when the script got past the NAICS multiselect.
ReloadRuns(c, a, s) ==
    LET L1 == load_data(c, a, s) IN
    IF ~PastNaics(L1.df)
    THEN [df |-> L1.df, cache |-> L1.cache, age |-> L1.age,
          calls |-> <<L1.call>>, rerun |-> FALSE]
    ELSE LET L2 == load_data(cache_clear(L1.cache), 0, s) IN
         [df |-> L2.df, cache |-> L2.cache, age |-> L2.age,
          calls |-> <<L1.call, L2.call>>, rerun |-> TRUE]

\* the elements the run that sees the click has created when st.rerun()
\* ends it
RenderedAtReload ==
    {"title", "filters_header", "state_filter", "city_filter", "zip_filter",
     "naics_filter", "ez_only", "controls_header", "reload_button"}

\* the user clicks Reload Data
Reload ==
    /\ "reload_button" \in rendered
    /\ LET R == ReloadRuns(cache_data, age, store)
           c == IF R.rerun THEN Kept(Crit, RenderedAtReload) ELSE Crit
           out == Script(R.df, c) IN
        /\ cache_data' = R.cache
        /\ age' = R.age
        /\ calls' = R.calls
        /\ caller' = "this"
        /\ Show(out)
        /\ SetWidgets(Kept(c, out.rendered))
    /\ UNCHANGED store

\* another session runs the script: it shares the cache, its page is its own
OtherSessionRun ==
    /\ LET L == load_data(cache_data, age, store) IN
        /\ cache_data' = L.cache
        /\ age' = L.age
        /\ calls' = <<L.call>>
        /\ caller' = "other"
    /\ UNCHANGED <<store, widgets, page>>

\* another session clicks Reload Data
OtherSessionReload ==
    /\ cache_data.present
    /\ LET R == ReloadRuns(cache_data, age, store) IN
        /\ cache_data' = R.cache
        /\ age' = R.age
        /\ calls' = R.calls
        /\ caller' = "other"
    /\ UNCHANGED <<store, widgets, page>>

\* time passes
Tick(d) ==
    /\ cache_data.present
    /\ age < MaxAge
    /\ age' = IF age + d > MaxAge THEN MaxAge ELSE age + d
    /\ calls' = <<>>
    /\ caller' = "none"
    /\ UNCHANGED <<store, cache_data, widgets, page>>

\* the store becomes unreachable, or the secrets become invalid: either way
\* get_engine or read_sql raises
StoreFails ==
    /\ store.status = "up"
    /\ store' = [store EXCEPT !.status = "down"]
    /\ calls' = <<>>
    /\ caller' = "none"
    /\ UNCHANGED <<cache_data, age, widgets, page>>

StoreRecovers ==
    /\ store.status # "up"
    /\ store' = [store EXCEPT !.status = "up"]
    /\ calls' = <<>>
    /\ caller' = "none"
    /\ UNCHANGED <<cache_data, age, widgets, page>>

\* the table's schema is changed
StoreAlters(cols) ==
    /\ store.cols # cols
    /\ store' = [store EXCEPT !.cols = cols]
    /\ calls' = <<>>
    /\ caller' = "none"
    /\ UNCHANGED <<cache_data, age, widgets, page>>

Next ==
    \/ Rerun
    \/ \E sel \in SUBSET Unique(df.rows, "state") : SetStateFilter(sel)
    \/ \E t \in TypedTexts : SetCityFilter(t)
    \/ \E t \in TypedTexts : SetZipFilter(t)
    \/ \E sel \in SUBSET Unique(df.rows, "naics_code") : SetNaicsFilter(sel)
    \/ ToggleEzOnly
    \/ \E g \in GroupOptions : SetGroupOption(g)
    \/ Reload
    \/ OtherSessionRun
    \/ OtherSessionReload
    \/ \E d \in Delays : Tick(d)
    \/ StoreFails
    \/ StoreRecovers
    \/ \E cols \in Schemas : StoreAlters(cols)

Spec == Init /\ [][Next]_vars

----------------------------------------------------------------------------
(* The filtering specification: any table, loaded and cached, and any      *)
(* widget values over it; the script is run on them.                        *)

InitFilter ==
    /\ \E rows \in Datasets :
        /\ store = [status |-> "up", rows |-> rows, cols |-> Columns]
        /\ cache_data = [present |-> TRUE, rows |-> rows, cols |-> Columns]
        /\ state_filter \in SUBSET Unique(rows, "state")
        /\ naics_filter \in SUBSET Unique(rows, "naics_code")
    /\ age = 0
    /\ city_filter \in Texts
    /\ zip_filter \in Texts
    /\ ez_only \in BOOLEAN
    /\ group_option \in GroupOptions
    /\ BlankPage
    /\ calls = <<>>
    /\ caller = "none"

NextFilter == Rerun

SpecFilter == InitFilter /\ [][NextFilter]_vars

----------------------------------------------------------------------------
(* Properties of the filtering, the metrics and the summary (SpecFilter) *)

\* the script has run and computed filtered_df
Filtered == rendered # {} /\ filtered_df.ok

\* the script has run to its end without an exception
Completed == "table" \in rendered

\* t occurs in v as a plain substring, letter case ignored; a null never matches
ContainsIgnoringCase(v, t) ==
    /\ v # NULLTEXT
    /\ \E k \in 0..(Len(v) - Len(t)) :
        \A i \in 1..Len(t) : Lower(t[i]) = Lower(v[k + i])

OnlyCity ==
    /\ state_filter = {} /\ naics_filter = {} /\ ~ez_only
    /\ zip_filter = <<>> /\ city_filter # <<>>

OnlyZip ==
    /\ state_filter = {} /\ naics_filter = {} /\ ~ez_only
    /\ city_filter = <<>> /\ zip_filter # <<>>

\* a text of letters and digits
Plain(t) == \A i \in 1..Len(t) : t[i] \notin {".", "("}

\* C1, for filter texts of letters and digits: with a non-empty city text
\* (or zipcode text) as the only active filter, the run retains exactly the
\* records whose city (zipcode) is non-null and contains the text as a
\* substring, letter case ignored.
C1_TextFiltersIgnoreCase ==
    (rendered # {} /\ Plain(city_filter) /\ Plain(zip_filter)) =>
        /\ OnlyCity =>
            /\ filtered_df.ok
            /\ filtered_df.rows =
                SelectSeq(df.rows,
                          LAMBDA r : ContainsIgnoringCase(r.city, city_filter))
        /\ OnlyZip =>
            /\ filtered_df.ok
            /\ filtered_df.rows =
                SelectSeq(df.rows,
                          LAMBDA r : ContainsIgnoringCase(r.zipcode, zip_filter))

\* C2: the counts of the grouped summary sum to the number of records of
\* the filtered dataset, whatever the group option and null keys included.
C2_SummaryCountsSumToSize ==
    Completed => SummaryTotal(summary.counts) = Len(filtered_df.rows)

\* a record satisfies every active criterion
Satisfies(r, c) ==
    /\ c.state_filter = {} \/ r.state \in c.state_filter
    /\ c.city_filter = <<>> \/ str_contains(r.city, c.city_filter, FALSE)
    /\ c.zip_filter = <<>> \/ str_contains(r.zipcode, c.zip_filter, TRUE)
    /\ c.naics_filter = {} \/ r.naics_code \in c.naics_filter
    /\ ~c.ez_only \/ r.zone_result # "N/A"

\* the results of applying the masks of S to d, over every order of S
RECURSIVE OrderResults(_, _, _)
OrderResults(S, d, c) ==
    IF S = {} THEN {d}
    ELSE UNION {OrderResults(S \ {f}, ApplyMask(f, d, c), c) : f \in S}

\* C6: filtered_df is exactly the records of df, in their order, that
\* satisfy every active criterion, and applying the five masks in any other
\* order gives the same result.
C6_ConjunctiveAndCommutative ==
    Filtered =>
        /\ filtered_df.rows = SelectSeq(df.rows, LAMBDA r : Satisfies(r, Crit))
        /\ OrderResults(Range(CodeOrder), df.rows, Crit) = {filtered_df.rows}

C6_Witness ==
    /\ Filtered
    /\ state_filter # {} /\ city_filter # <<>> /\ ez_only
    /\ filtered_df.rows # <<>>
    /\ Len(filtered_df.rows) < Len(df.rows)

Without(f) == SelectSeq(CodeOrder, LAMBDA g : g # f)

\* C7: with every criterion unset filtered_df equals df, and a criterion
\* that is unset on its own leaves the result what the other four make it.
C7_UnsetImposesNothing ==
    Filtered =>
        /\ (state_filter = {} /\ city_filter = <<>> /\ zip_filter = <<>>
                /\ naics_filter = {} /\ ~ez_only)
            => filtered_df.rows = df.rows
        /\ state_filter = {}
            => filtered_df.rows = ApplyMasks(Without("state"), df.rows, Crit)
        /\ city_filter = <<>>
            => filtered_df.rows = ApplyMasks(Without("city"), df.rows, Crit)
        /\ zip_filter = <<>>
            => filtered_df.rows = ApplyMasks(Without("zipcode"), df.rows, Crit)
        /\ naics_filter = {}
            => filtered_df.rows = ApplyMasks(Without("naics_code"), df.rows, Crit)
        /\ ~ez_only
            => filtered_df.rows = ApplyMasks(Without("zone_result"), df.rows, Crit)

C7_Witness ==
    /\ Filtered
    /\ state_filter = {} /\ city_filter = <<>> /\ zip_filter = <<>>
    /\ naics_filter = {} /\ ~ez_only
    /\ Len(df.rows) >= 2
    /\ filtered_df.rows = df.rows

\* C8: filtering the filtered result again with the same criteria returns it.
C8_Idempotent ==
    Filtered => Filtering(filtered_df.rows, Crit) = filtered_df.rows

C8_Witness ==
    /\ Filtered
    /\ ez_only /\ zip_filter # <<>>
    /\ filtered_df.rows # <<>>
    /\ Len(filtered_df.rows) < Len(df.rows)

Positions(F, Test(_)) == {i \in 1..Len(F) : Test(F[i])}

\* C9 as stated: the metrics are the number of records of the filtered
\* dataset, the number of them whose zone_result is not "N/A", and the number
\* of distinct naics_code values among them, null being one of the values.
C9_MetricsCountNullNaics ==
    Completed =>
        /\ metrics.count = Len(filtered_df.rows)
        /\ metrics.eligibleCount =
            Cardinality(Positions(filtered_df.rows,
                                  LAMBDA r : r.zone_result # "N/A"))
        /\ metrics.distinctNaicsCount =
            Cardinality({filtered_df.rows[i].naics_code :
                            i \in 1..Len(filtered_df.rows)})
        /\ metrics.eligibleCount <= metrics.count

\* C9 amended: the metrics are the number of records of the filtered
\* dataset, the number of them whose zone_result is not "N/A", and the number
\* of distinct non-null naics_code values among them; eligibleCount <= count;
\* the three-record scenario filtered by state = {"CA"} gives 2, 1, 1.
C9_Metrics ==
    Completed =>
        /\ metrics.count = Len(filtered_df.rows)
        /\ metrics.eligibleCount =
            Cardinality(Positions(filtered_df.rows,
                                  LAMBDA r : r.zone_result # "N/A"))
        /\ metrics.distinctNaicsCount =
            Cardinality({filtered_df.rows[i].naics_code :
                            i \in 1..Len(filtered_df.rows)} \ {NULL})
        /\ metrics.eligibleCount <= metrics.count
        /\ (df.rows = ScenarioData /\ state_filter = {"CA"}
                /\ city_filter = <<>> /\ zip_filter = <<>>
                /\ naics_filter = {} /\ ~ez_only)
            => metrics = [count |-> 2, eligibleCount |-> 1,
                          distinctNaicsCount |-> 1]

C9_Witness ==
    /\ Completed
    /\ df.rows = ScenarioData
    /\ state_filter = {"CA"} /\ city_filter = <<>> /\ zip_filter = <<>>
    /\ naics_filter = {} /\ ~ez_only
    /\ metrics = [count |-> 2, eligibleCount |-> 1, distinctNaicsCount |-> 1]

----------------------------------------------------------------------------
(* Properties of the error boundary and of the cache (Spec) *)

\* the filter controls, the metrics, the chart and the table
Dashboard == FilterControls \cup MetricElements \cup {"chart", "table"}

\* the last run of this session ended in the except clause
Failed == "error" \in rendered

\* load_data raised in the last run of this session
LoadFailed == rendered # {} /\ ~df.ok

\* C3, for runs whose filter texts are letters and digits: a run that fails
\* anywhere, in load_data or after it (a column the script expects is
\* missing), shows none of the filter controls, metrics, chart or table, and
\* one error message.
C3_NoPartialRendering ==
    (Failed /\ Plain(city_filter) /\ Plain(zip_filter)) =>
        rendered \cap Dashboard = {} /\ errors = 1

\* C4: a run in which load_data fails shows no filter control, no metric,
\* no chart and no table, and exactly one error message.
C4_LoadFailureShowsOnlyError ==
    LoadFailed =>
        /\ rendered \cap Dashboard = {}
        /\ "error" \in rendered
        /\ errors = 1

C4_Witness ==
    /\ LoadFailed
    /\ caller = "this"
    /\ calls # <<>> /\ ~calls[Len(calls)].ok

\* C5 as stated: a call of load_data runs the query exactly when there is
\* no cached dataset or the cached one is older than 600 time units.
C5_QueriesWhenOlderThanTTL ==
    \A i \in DOMAIN calls :
        calls[i].queried <=> (~calls[i].entry \/ calls[i].entryAge > TTL)

\* C5 amended: a call of load_data runs the query exactly when there is no
\* cached dataset (none yet, or cleared by Reload) or the cached one is at
\* least 600 time units old; otherwise it returns the cached snapshot and
\* leaves it as it is.  The load that follows the clear of a Reload finds no
\* cached dataset and runs the query.
C5_QueriesWhenTTLElapsed ==
    /\ \A i \in DOMAIN calls :
        calls[i].queried <=> (~calls[i].entry \/ calls[i].entryAge >= TTL)
    /\ Len(calls) = 2 => ~calls[2].entry /\ calls[2].queried
    /\ (Len(calls) = 1 /\ ~calls[1].queried) =>
        /\ cache_data.present
        /\ age = calls[1].entryAge
        /\ caller = "this" =>
            df = [ok |-> TRUE, rows |-> cache_data.rows,
                  cols |-> cache_data.cols]

\* a run of this session was served a snapshot one unit short of its ttl
\* while the store held something else
C5_Witness ==
    /\ caller = "this"
    /\ Len(calls) = 1
    /\ ~calls[1].queried
    /\ calls[1].entryAge = TTL - 1
    /\ store.cols # cache_data.cols
    /\ df.cols = cache_data.cols

\* C10: a failed load is not cached and is not tried again in the same run:
\* the call that fails has run the query, is the last call of its step and
\* leaves no cached dataset.  When this session's page shows a failed load,
\* its next run queries again unless another session has cached a dataset
\* since, its load succeeds once the store is reachable, and it then renders
\* the whole dashboard unless a later statement of the script raises.
C10_FailedLoadIsRetriedNextRun ==
    [][/\ \A i \in DOMAIN calls' :
            ~calls'[i].ok =>
                /\ calls'[i].queried
                /\ i = Len(calls')
                /\ ~cache_data'.present
       /\ (LoadFailed /\ caller' = "this") =>
            /\ ~cache_data.present => calls'[1].queried
            /\ store.status = "up" =>
                /\ df'.ok
                /\ ~Raised(df', Crit') => Dashboard \subseteq rendered'
                /\ ~Raised(df', Crit') => errors' = 0]_vars

\* this session's load failed, with nothing served and nothing cached
C10_Witness ==
    /\ LoadFailed
    /\ caller = "this"
    /\ Len(calls) = 1
    /\ calls[1].queried /\ ~calls[1].ok
    /\ calls[1].entry
    /\ ~cache_data.present

====
